---- MODULE Spec2Model ----
(***************************************************************************)
(* Smart Memory MCP (src/server.js): the knowledge store, its TF-IDF       *)
(* retrieval engine and the six tool operations, as a state machine.       *)
(*                                                                         *)
(* Strings are sequences of one-character strings, so that tokenize works  *)
(* on characters as the source does.  Real numbers are fixed point with    *)
(* three decimals (1000 stands for 1.0).                                   *)
(***************************************************************************)
EXTENDS Integers, Sequences, FiniteSets, TLC

\* --------------------------------------------------------------------------
\* Bounds of the model
\* --------------------------------------------------------------------------
\* how many requests one run sends, how many days pass meanwhile, and how
\* many handlers may be suspended at once
MaxRequests == 4
MaxTicks == 1
MaxInflight == 2

\* --------------------------------------------------------------------------
\* JavaScript values
\* --------------------------------------------------------------------------
\* the value undefined (an absent argument or an absent object key)
Undefined == <<"<undefined>">>

\* an optional number argument: absent, or present with a value
NoNum == [has |-> FALSE, val |-> 0]
Num(n) == [has |-> TRUE, val |-> n]

\* String(undefined) inside a template literal
StrUndefined == <<"u","n","d","e","f","i","n","e","d">>

\* `${x}`
Interp(x) == IF x = Undefined THEN StrUndefined ELSE x

\* x || d for a string x: undefined and "" are falsy
OrStr(x, d) == IF x = Undefined \/ x = <<>> THEN d ELSE x

\* x || d for a number x: undefined and 0 are falsy
OrNum(x, d) == IF ~x.has \/ x.val = 0 THEN d ELSE x.val

RECURSIVE JoinSp(_)
\* Array.prototype.join(" ")
JoinSp(ss) ==
  IF ss = <<>> THEN <<>>
  ELSE IF Len(ss) = 1 THEN ss[1]
  ELSE ss[1] \o <<" ">> \o JoinSp(Tail(ss))

RECURSIVE SumOver(_, _)
SumOver(S, f) ==
  IF S = {} THEN 0
  ELSE LET x == CHOOSE y \in S : TRUE IN f[x] + SumOver(S \ {x}, f)

Range(s) == {s[i] : i \in DOMAIN s}

\* the function f with its values computed once (an object literal filled in
\* a loop, not a formula evaluated at every read)
Filled(f) == f @@ f

\* Array.prototype.filter, keeping order
SelectIdx(s, keep) ==
  LET F[i \in 0..Len(s)] ==
        IF i = 0 THEN <<>>
        ELSE IF i \in keep THEN Append(F[i - 1], s[i]) ELSE F[i - 1]
  IN F[Len(s)]

\* --------------------------------------------------------------------------
\* TF-IDF engine
\* --------------------------------------------------------------------------
STOP_WORDS == {
    <<"t","h","e">>, <<"a">>, <<"a","n">>, <<"i","s">>, <<"a","r","e">>, <<"w","a","s">>,
    <<"w","e","r","e">>, <<"b","e">>, <<"b","e","e","n">>, <<"b","e","i","n","g">>,
    <<"h","a","v","e">>, <<"h","a","s">>, <<"h","a","d">>, <<"d","o">>, <<"d","o","e","s">>,
    <<"d","i","d">>, <<"w","i","l","l">>, <<"w","o","u","l","d">>, <<"c","o","u","l","d">>,
    <<"s","h","o","u","l","d">>, <<"m","a","y">>, <<"m","i","g","h","t">>, <<"s","h","a","l","l">>,
    <<"c","a","n">>, <<"n","e","e","d">>, <<"t","o">>, <<"o","f">>, <<"i","n">>, <<"f","o","r">>,
    <<"o","n">>, <<"w","i","t","h">>, <<"a","t">>, <<"b","y">>, <<"f","r","o","m">>, <<"a","s">>,
    <<"i","n","t","o">>, <<"t","h","r","o","u","g","h">>, <<"d","u","r","i","n","g">>,
    <<"b","e","f","o","r","e">>, <<"a","f","t","e","r">>, <<"a","b","o","v","e">>,
    <<"b","e","l","o","w">>, <<"b","e","t","w","e","e","n">>, <<"o","u","t">>, <<"o","f","f">>,
    <<"o","v","e","r">>, <<"u","n","d","e","r">>, <<"a","g","a","i","n">>,
    <<"f","u","r","t","h","e","r">>, <<"t","h","e","n">>, <<"o","n","c","e">>, <<"h","e","r","e">>,
    <<"t","h","e","r","e">>, <<"w","h","e","n">>, <<"w","h","e","r","e">>, <<"w","h","y">>,
    <<"h","o","w">>, <<"a","l","l">>, <<"b","o","t","h">>, <<"e","a","c","h">>, <<"f","e","w">>,
    <<"m","o","r","e">>, <<"m","o","s","t">>, <<"o","t","h","e","r">>, <<"s","o","m","e">>,
    <<"s","u","c","h">>, <<"n","o">>, <<"n","o","r">>, <<"n","o","t">>, <<"o","n","l","y">>,
    <<"o","w","n">>, <<"s","a","m","e">>, <<"s","o">>, <<"t","h","a","n">>, <<"t","o","o">>,
    <<"v","e","r","y">>, <<"j","u","s","t">>, <<"b","e","c","a","u","s","e">>, <<"b","u","t">>,
    <<"a","n","d">>, <<"o","r">>, <<"i","f">>, <<"w","h","i","l","e">>, <<"t","h","a","t">>,
    <<"t","h","i","s">>, <<"i","t">>, <<"i","t","s">>, <<"i">>, <<"m","e">>, <<"m","y">>,
    <<"w","e">>, <<"o","u","r">>, <<"y","o","u">>, <<"y","o","u","r">>, <<"h","e">>,
    <<"h","i","m">>, <<"h","i","s">>, <<"s","h","e">>, <<"h","e","r">>, <<"t","h","e","y">>,
    <<"t","h","e","m">>, <<"t","h","e","i","r">>, <<"w","h","a","t">>, <<"w","h","i","c","h">>,
    <<"w","h","o">>, <<"w","h","o","m">>, <<"t","h","e","s","e">>, <<"t","h","o","s","e">>,
    <<"a","m">>, <<"a","b","o","u","t">>, <<"u","p">>, <<"d","a","s">>, <<"d","i","e">>,
    <<"d","e","r">>, <<"u","n","d">>, <<"i","s","t">>, <<"e","i","n">>, <<"e","i","n","e">>,
    <<"f","u","e","r">>, <<"m","i","t">>, <<"a","u","f">>, <<"v","o","n">>, <<"d","e","n">>,
    <<"d","e","m">>, <<"d","e","s">>, <<"i","c","h">>, <<"d","u">>, <<"e","r">>, <<"s","i","e">>,
    <<"e","s">>, <<"w","i","r">>, <<"i","h","r">>
  }

UpperChars == <<"A","B","C","D","E","F","G","H","I","J","K","L","M",
                "N","O","P","Q","R","S","T","U","V","W","X","Y","Z">>
LowerChars == <<"a","b","c","d","e","f","g","h","i","j","k","l","m",
                "n","o","p","q","r","s","t","u","v","w","x","y","z">>
Digits == {"0","1","2","3","4","5","6","7","8","9"}
WhiteSpace == {" ", "\t", "\n"}

\* String.prototype.toLowerCase on one character (ASCII alphabet)
ToLowerChar(c) ==
  IF \E i \in DOMAIN UpperChars : UpperChars[i] = c
  THEN LowerChars[CHOOSE i \in DOMAIN UpperChars : UpperChars[i] = c]
  ELSE c

\* the character class [a-z0-9\s-] (the four Latin-1 letters of the source's
\* class lie outside the modelled alphabet)
KeptChar(c) == c \in Range(LowerChars) \cup Digits \cup WhiteSpace \cup {"-"}

\* .toLowerCase().replace(/[^a-z0-9...\s-]/g, " ")
Normalize(text) ==
  [i \in DOMAIN text |->
     LET c == ToLowerChar(text[i]) IN IF KeptChar(c) THEN c ELSE " "]

\* .split(/\s+/): the pieces between maximal runs of white space; a leading
\* or trailing run gives an empty piece, and "" gives one empty piece
SplitWs(s) ==
  LET F[i \in 0..Len(s)] ==
        IF i = 0 THEN [acc |-> <<>>, cur |-> <<>>, run |-> FALSE]
        ELSE LET p == F[i - 1] IN
             IF s[i] \in WhiteSpace
             THEN IF p.run THEN p
                  ELSE [acc |-> Append(p.acc, p.cur), cur |-> <<>>, run |-> TRUE]
             ELSE [acc |-> p.acc, cur |-> Append(p.cur, s[i]), run |-> FALSE]
      r == F[Len(s)]
  IN Append(r.acc, r.cur)

\* .filter((w) => w.length > 2 && !STOP_WORDS.has(w))
KeepWords(ws) ==
  SelectIdx(ws, {i \in DOMAIN ws : Len(ws[i]) > 2 /\ ws[i] \notin STOP_WORDS})

tokenize(text) == KeepWords(SplitWs(Normalize(text)))

\* Math.max(...values, 1)
MaxCount(tokens) ==
  LET cnt(t) == Cardinality({i \in DOMAIN tokens : tokens[i] = t})
      m == CHOOSE c \in {cnt(t) : t \in Range(tokens)} \cup {1} :
             \A d \in {cnt(t) : t \in Range(tokens)} \cup {1} : d <= c
  IN m

termFrequency(tokens) ==
  LET max == MaxCount(tokens)
  IN Filled([t \in Range(tokens) |->
       (Cardinality({i \in DOMAIN tokens : tokens[i] = t}) * 1000) \div max])

\* Math.sqrt, rounded down
ISqrt(n) ==
  LET F[k \in 0..16] ==
        \* bisection on [lo, hi): sixteen halvings cover 0 .. 46340^2
        IF k = 0 THEN [lo |-> 0, hi |-> 46341]
        ELSE LET p == F[k - 1]
                 mid == (p.lo + p.hi) \div 2
             IN IF p.hi - p.lo <= 1 THEN p
                ELSE IF mid * mid <= n THEN [lo |-> mid, hi |-> p.hi]
                ELSE [lo |-> p.lo, hi |-> mid]
  IN F[16].lo

\* a[t] || 0
At(a, t) == IF t \in DOMAIN a THEN a[t] ELSE 0

\* the sum over terms of a[t] * b[t] (lines 74-78)
DotOver(terms, a, b) == SumOver(terms, [t \in terms |-> At(a, t) * At(b, t)])

\* magA && magB ? dot / (Math.sqrt(magA) * Math.sqrt(magB)) : 0 (lines 79-80)
Quotient(dot, magA, magB) ==
  IF magA # 0 /\ magB # 0
  THEN dot \div ((ISqrt(magA) * ISqrt(magB)) \div 1000)
  ELSE 0

CosineOver(terms, a, b) ==
  Quotient(DotOver(terms, a, b), DotOver(terms, a, a), DotOver(terms, b, b))

cosineSimilarity(a, b) == CosineOver(DOMAIN a \cup DOMAIN b, a, b)

\* 1000 * Math.log(k) for k = 1 .. 8
Ln1000 == <<0, 693, 1099, 1386, 1609, 1792, 1946, 2079>>

\* Math.log((n + 1) / (df + 1)) + 1
Idf(n, df) == Ln1000[n + 1] - Ln1000[df + 1] + 1000

General == <<"g","e","n","e","r","a","l">>
Manual == <<"m","a","n","u","a","l">>
Str_error == <<"e","r","r","o","r">>
Str_failure == <<"f","a","i","l","u","r","e">>
Str_success == <<"s","u","c","c","e","s","s">>
Str_solution == <<"s","o","l","u","t","i","o","n">>
Str_pattern == <<"p","a","t","t","e","r","n">>
Str_best_practice == <<"b","e","s","t","-","p","r","a","c","t","i","c","e">>


\* --------------------------------------------------------------------------
\* Inputs of the requests
\* --------------------------------------------------------------------------
NoTags == [has |-> FALSE, val |-> <<>>]
Tags(ts) == [has |-> TRUE, val |-> ts]

Str_bug == <<"b","u","g">>
Str_React_hooks == <<"R","e","a","c","t"," ","h","o","o","k","s","!">>
Str_React == <<"R","e","a","c","t">>
Str_docker == <<"d","o","c","k","e","r">>
Str_ok == <<"o","k">>

\* memory_learn arguments: content alone, and category and tags without the
\* required content
LearnArgs ==
  { [content |-> Str_React_hooks, category |-> Undefined, tags |-> NoTags,
     source |-> Undefined],
    [content |-> Undefined, category |-> Str_bug,
     tags |-> Tags(<<Str_error, Str_solution>>), source |-> Undefined] }

\* memory_learn arguments with a content and tags: none, one rule's tags,
\* tags of two rules, and a list that names a tag twice
TaggedLearnArgs ==
  {[content |-> Str_React_hooks, category |-> Undefined, tags |-> t,
    source |-> Undefined] :
     t \in {NoTags,
            Tags(<<Str_error, Str_solution>>),
            Tags(<<Str_solution, Str_pattern>>),
            Tags(<<Str_best_practice>>),
            Tags(<<Str_solution, Str_error, Str_solution>>)}}

RecallArgs ==
  { [query |-> Str_React, limit |-> NoNum, category |-> Undefined, minScore |-> NoNum],
    [query |-> Str_docker, limit |-> NoNum, category |-> Undefined, minScore |-> NoNum],
    [query |-> Str_docker, limit |-> Num(1), category |-> Str_bug, minScore |-> NoNum],
    [query |-> Str_docker, limit |-> Num(0), category |-> Undefined, minScore |-> NoNum],
    [query |-> Str_docker, limit |-> NoNum, category |-> Undefined, minScore |-> Num(0)] }

SuggestArgs == { [context |-> Str_React] }

EvaluateArgs ==
  {[entryId |-> i, useful |-> v[1], feedback |-> v[2]] :
     i \in {1, 2, 9}, v \in {<<TRUE, Undefined>>, <<FALSE, Str_ok>>}}

\* `${entry.content} ${(entry.tags || []).join(" ")} ${entry.category || ""}`
SearchText(content, tags, category) ==
  Interp(content) \o <<" ">> \o JoinSp(tags) \o <<" ">> \o category

\* tokenize is a pure function: its values on the texts of the requests are
\* computed once
KnownTexts ==
  {SearchText(a.content, IF a.tags.has THEN a.tags.val ELSE <<>>,
              OrStr(a.category, General)) : a \in LearnArgs \cup TaggedLearnArgs}
    \cup {a.query : a \in RecallArgs} \cup {a.context : a \in SuggestArgs}

TokenTable == [text \in KnownTexts |-> tokenize(text)]

Tokens(text) == IF text \in KnownTexts THEN TokenTable[text] ELSE tokenize(text)

TfTable == [text \in KnownTexts |-> termFrequency(tokenize(text))]

\* termFrequency(tokenize(text))
TermsOf(text) ==
  IF text \in KnownTexts THEN TfTable[text] ELSE termFrequency(tokenize(text))

\* --------------------------------------------------------------------------
\* Storage
\* --------------------------------------------------------------------------
\* a file of DATA_DIR: absent, present with text JSON.parse rejects, or
\* present with the value JSON.stringify wrote
NoFile == [state |-> "missing"]
BadFile == [state |-> "corrupt"]
JsonFile(data) == [state |-> "ok", json |-> data]

EmptyKB == [entries |-> <<>>, nextId |-> 1]

\* a load that falls back for a missing file only
loadJsonIfMissing(file, fallback) ==
  IF file.state = "ok" THEN file.json
  ELSE IF file.state = "missing" THEN fallback
  ELSE [entries |-> <<>>, nextId |-> 0]

loadJson(file, fallback) == IF file.state = "ok" THEN file.json ELSE fallback

saveJson(data) == JsonFile(data)

loadKB(file) == loadJson(file, EmptyKB)

\* a save that leaves no file
saveKBNowhere(kb) == NoFile

saveKB(kb) == saveJson(kb)

EntryText(entry) == SearchText(entry.content, entry.tags, entry.category)

\* new Set(tokenize(...)) of one entry (lines 117-119)
TokenSet(entry) == Range(Tokens(EntryText(entry)))

\* posting lists that name every entry under every token
PostingsOfAll(entries, t) == [i \in DOMAIN entries |-> entries[i].id]

\* terms[token]: the ids of the entries holding the token, in entry order
Postings(entries, t) ==
  LET F[i \in 0..Len(entries)] ==
        IF i = 0 THEN <<>>
        ELSE IF t \in TokenSet(entries[i]) THEN Append(F[i - 1], entries[i].id)
        ELSE F[i - 1]
  IN F[Len(entries)]

\* lines 125-129: the inverse document frequencies of the posting lists
IndexOf(terms, n) ==
  [terms |-> terms,
   idf |-> [t \in DOMAIN terms |-> Idf(n, Len(terms[t]))],
   docCount |-> n]

buildIndex(entries) ==
  IndexOf(Filled([t \in UNION {TokenSet(entries[i]) : i \in DOMAIN entries} |->
                    Postings(entries, t)]),
          Len(entries))

\* --------------------------------------------------------------------------
\* Results of the operations
\* --------------------------------------------------------------------------
\* one shape for every tool result; err marks a thrown exception, which the
\* request handler turns into an isError answer
NoRes ==
  [err |-> FALSE, id |-> 0, total |-> 0, ids |-> <<>>, scores |-> <<>>,
   types |-> <<>>, success |-> FALSE, usefulness |-> 0, totalAccesses |-> 0,
   message |-> FALSE, categories |-> <<>>, topTags |-> <<>>, tagPairs |-> <<>>,
   mostAccessed |-> <<>>]

Thrown == [NoRes EXCEPT !.err = TRUE]

\* 24 hours in milliseconds, and the step of the modelled clock
DayMs == 86400000
TickMs == DayMs


\* --------------------------------------------------------------------------
\* Memory operations, as functions of the files, the clock and the arguments
\* --------------------------------------------------------------------------
\* a counter that is read but not advanced
NextIdKept(nextId) == nextId

\* kb.nextId++ (line 139): the counter after the entry took its id
NextIdAfter(nextId) == nextId + 1

\* a push that puts the new entry in front of the collection
learnUnshift(kb, now, args) ==
  [entries |-> <<[id |-> kb.nextId, content |-> args.content,
                  category |-> OrStr(args.category, General),
                  tags |-> IF args.tags.has THEN args.tags.val ELSE <<>>,
                  source |-> OrStr(args.source, Manual), timestamp |-> now,
                  accessCount |-> 0, usefulness |-> 0, feedback |-> <<>>]>>
                \o kb.entries,
   nextId |-> kb.nextId + 1]

\* lines 138-148: the new entry, pushed on the loaded collection
learnPush(kb, now, args) ==
  LET entry == [id |-> kb.nextId,
                content |-> args.content,
                category |-> OrStr(args.category, General),
                tags |-> IF args.tags.has THEN args.tags.val ELSE <<>>,
                source |-> OrStr(args.source, Manual),
                timestamp |-> now,
                accessCount |-> 0,
                usefulness |-> 0,
                feedback |-> <<>>]
  IN [entries |-> Append(kb.entries, entry), nextId |-> NextIdAfter(kb.nextId)]

\* lines 152-156: content.substring(0, 100) throws on undefined
learnReturn(kb, args) ==
  IF args.content = Undefined THEN Thrown
  ELSE [NoRes EXCEPT !.id = kb.entries[Len(kb.entries)].id,
                     !.total = Len(kb.entries)]

memoryLearn(kbF, idxF, now, args) ==
  LET kb == learnPush(loadKB(kbF), now, args)
  IN [kbFile |-> saveKB(kb),
      idxFile |-> saveJson(buildIndex(kb.entries)),
      res |-> learnReturn(kb, args)]

\* tf * (idx.idf[term] || 1) for every term of a term-frequency map
WeightedVec(tf, idx) ==
  Filled([t \in DOMAIN tf |->
     (tf[t] * (IF t \in DOMAIN idx.idf THEN idx.idf[t] ELSE 1000)) \div 1000])

\* a score without the recency boost
ScoreNoRecency(entry, queryVec, idx, now) ==
  cosineSimilarity(queryVec, WeightedVec(TermsOf(EntryText(entry)), idx))
    + entry.usefulness * 50

\* a score that also falls with every access
ScoreWornByAccess(entry, queryVec, idx, now) ==
  cosineSimilarity(queryVec, WeightedVec(TermsOf(EntryText(entry)), idx))
    + (IF now - entry.timestamp < DayMs THEN 100 ELSE 0)
    + entry.usefulness * 50
    - entry.accessCount * 50

\* the adjusted score of one entry (lines 176-188)
ScoreEntry(entry, queryVec, idx, now) ==
  LET entryVec == WeightedVec(TermsOf(EntryText(entry)), idx)
      age == now - entry.timestamp
  IN cosineSimilarity(queryVec, entryVec)
       + (IF age < DayMs THEN 100 ELSE 0)
       + entry.usefulness * 50

\* Array.prototype.sort((a, b) => b.score - a.score): stable, descending
SortByScore(ss) ==
  LET Insert(sorted, x) ==
        LET k == Cardinality({i \in DOMAIN sorted : sorted[i].score >= x.score})
        IN SubSeq(sorted, 1, k) \o <<x>> \o SubSeq(sorted, k + 1, Len(sorted))
      F[i \in 0..Len(ss)] == IF i = 0 THEN <<>> ELSE Insert(F[i - 1], ss[i])
  IN F[Len(ss)]

\* Array.prototype.slice(0, limit) for an integer limit
Slice0(s, limit) ==
  LET end == IF limit < 0 THEN Len(s) + limit ELSE limit
  IN IF end <= 0 THEN <<>> ELSE SubSeq(s, 1, IF end < Len(s) THEN end ELSE Len(s))

RECURSIVE ScoreAll(_, _, _, _)
\* .map((entry) => ({ entry, score })) (lines 175-189)
ScoreAll(entries, queryVec, idx, now) ==
  IF entries = <<>> THEN <<>>
  ELSE <<[entry |-> Head(entries),
          score |-> ScoreEntry(Head(entries), queryVec, idx, now)]>>
       \o ScoreAll(Tail(entries), queryVec, idx, now)

\* .filter((e) => !category || e.category === category) (line 174)
InCategory(entries, category) ==
  SelectIdx(entries,
    {i \in DOMAIN entries :
       category = Undefined \/ category = <<>> \/ entries[i].category = category})

\* .filter((s) => s.score >= minScore) (line 190)
AtLeast(all, minScore) ==
  SelectIdx(all, {i \in DOMAIN all : all[i].score >= minScore})

\* lines 166-192: the ranked, thresholded, truncated list of {entry, score}
RankEntries(entries, idx, now, query, limit, category, minScore) ==
  Slice0(SortByScore(AtLeast(ScoreAll(InCategory(entries, category),
                                      WeightedVec(TermsOf(query), idx), idx, now),
                             minScore)),
         limit)

\* a count that the results leave alone
AccessKept(count, hits) == count

\* e.accessCount++ (line 197), once per result naming the entry
AccessAfter(count, hits) == count + hits

\* lines 195-198: kb.entries.find((e) => e.id === s.entry.id) is the first
\* entry with that id; it is incremented once per element of scored naming it
touchAll(entries, scored) ==
  [i \in DOMAIN entries |->
     IF \A j \in 1..(i - 1) : entries[j].id # entries[i].id
     THEN [entries[i] EXCEPT
             !.accessCount =
                AccessAfter(@, Cardinality({k \in DOMAIN scored :
                                              scored[k].entry.id = entries[i].id}))]
     ELSE entries[i]]

\* lines 199-211: the save and the result rows
recallAnswer(kb, idxF, scored) ==
  [kbFile |-> saveKB([kb EXCEPT !.entries = touchAll(kb.entries, scored)]),
   idxFile |-> idxF,
   res |-> [NoRes EXCEPT
              !.ids = [i \in DOMAIN scored |-> scored[i].entry.id],
              !.scores = [i \in DOMAIN scored |-> scored[i].score],
              !.total = Len(kb.entries)]]

\* lines 163-211, on the loaded collection
recallLoaded(kbF, idxF, kb, now, args) ==
  IF Len(kb.entries) = 0
  THEN [kbFile |-> kbF, idxFile |-> idxF, res |-> [NoRes EXCEPT !.message = TRUE]]
  \* text.toLowerCase() throws on undefined, before the save
  ELSE IF args.query = Undefined
  THEN [kbFile |-> kbF, idxFile |-> idxF, res |-> Thrown]
  ELSE recallAnswer(kb, idxF,
         RankEntries(kb.entries, loadJson(idxF, buildIndex(kb.entries)), now,
                     args.query, OrNum(args.limit, 10), args.category,
                     OrNum(args.minScore, 100)))

memoryRecall(kbF, idxF, now, args) ==
  recallLoaded(kbF, idxF, loadKB(kbF), now, args)

memoryStats(kbF, idxF, now, args) ==
  LET kb == loadKB(kbF)
      n == Len(kb.entries)
  IN [kbFile |-> kbF, idxFile |-> idxF,
      res |-> [NoRes EXCEPT
                 !.total = n,
                 !.totalAccesses =
                    SumOver(1..n, [i \in 1..n |-> kb.entries[i].accessCount])]]

\* the rules of lines 276-282 tried from the last to the first
SuggestionTypeLastRule(tags) ==
  IF \E i \in DOMAIN tags : tags[i] \in {Str_pattern, Str_best_practice}
  THEN "best_practice"
  ELSE IF \E i \in DOMAIN tags : tags[i] \in {Str_success, Str_solution}
       THEN "recommendation"
  ELSE IF \E i \in DOMAIN tags : tags[i] \in {Str_error, Str_failure}
       THEN "warning"
  ELSE "related"

\* lines 276-282
SuggestionType(tags) ==
  IF \E i \in DOMAIN tags : tags[i] \in {Str_error, Str_failure} THEN "warning"
  ELSE IF \E i \in DOMAIN tags : tags[i] \in {Str_success, Str_solution}
       THEN "recommendation"
  ELSE IF \E i \in DOMAIN tags : tags[i] \in {Str_pattern, Str_best_practice}
       THEN "best_practice"
  ELSE "related"

\* the result row of an id carries the content and tags of its entry
RowOf(entries, id) ==
  entries[CHOOSE j \in DOMAIN entries : entries[j].id = id]

\* lines 275-286, on the answer of the recall and the entries it saved
suggestRows(recall, entries) ==
  IF recall.res.err
  THEN [kbFile |-> recall.kbFile, idxFile |-> recall.idxFile, res |-> Thrown]
  \* r.content.substring(0, 200) throws on an entry stored without content
  ELSE IF \E k \in DOMAIN recall.res.ids :
            RowOf(entries, recall.res.ids[k]).content = Undefined
  THEN [kbFile |-> recall.kbFile, idxFile |-> recall.idxFile, res |-> Thrown]
  ELSE [kbFile |-> recall.kbFile, idxFile |-> recall.idxFile,
        res |-> [NoRes EXCEPT
                   !.ids = recall.res.ids,
                   !.scores = recall.res.scores,
                   !.types = [k \in DOMAIN recall.res.ids |->
                                SuggestionType(
                                  RowOf(entries, recall.res.ids[k]).tags)]]]

suggestFrom(recall) == suggestRows(recall, loadKB(recall.kbFile).entries)

\* memoryRecall({ query: context, limit: 5, minScore: 0.05 }) (line 274)
SuggestRecallArgs(args) ==
  [query |-> args.context, limit |-> Num(5), category |-> Undefined,
   minScore |-> Num(50)]

\* suggestions from a recall whose save is dropped
memorySuggestUnsaved(kbF, idxF, now, args) ==
  [kbFile |-> kbF, idxFile |-> idxF,
   res |-> suggestFrom(memoryRecall(kbF, idxF, now, SuggestRecallArgs(args))).res]

memorySuggest(kbF, idxF, now, args) ==
  IF Len(loadKB(kbF).entries) = 0
  THEN [kbFile |-> kbF, idxFile |-> idxF, res |-> [NoRes EXCEPT !.message = TRUE]]
  ELSE suggestFrom(memoryRecall(kbF, idxF, now, SuggestRecallArgs(args)))

\* a lookup that settles for the newest entry when the id is unknown
findOrNewest(entries, entryId) ==
  IF \E i \in DOMAIN entries : entries[i].id = entryId
  THEN CHOOSE i \in DOMAIN entries : entries[i].id = entryId
  ELSE Len(entries)

\* kb.entries.find((e) => e.id === entryId) (line 291): the position of the
\* first entry with that id, 0 for undefined
findEntry(entries, entryId) ==
  LET at == {i \in DOMAIN entries : entries[i].id = entryId}
  IN IF at = {} THEN 0 ELSE CHOOSE j \in at : \A k \in at : j <= k

\* a vote that stops at zero
VoteFloored(usefulness, useful) ==
  IF useful THEN usefulness + 1 ELSE IF usefulness > 0 THEN usefulness - 1 ELSE 0

\* entry.usefulness += useful ? 1 : -1 (line 293)
Vote(usefulness, useful) == usefulness + (IF useful THEN 1 ELSE -1)

\* lines 291-299: the collection to save, if the entry is found, and the result
evaluateApply(kb, now, args) ==
  LET i == findEntry(kb.entries, args.entryId)
      entry == kb.entries[i]
      entry2 == [entry EXCEPT
                   !.usefulness = Vote(@, args.useful),
                   !.feedback = IF args.feedback = Undefined \/ args.feedback = <<>>
                                THEN @
                                ELSE Append(@, [text |-> args.feedback,
                                                timestamp |-> now])]
  IN IF i = 0
     THEN [found |-> FALSE, kb |-> kb, res |-> NoRes]
     ELSE [found |-> TRUE,
           kb |-> [kb EXCEPT !.entries[i] = entry2],
           res |-> [NoRes EXCEPT !.success = TRUE,
                                 !.usefulness = entry2.usefulness]]

memoryEvaluate(kbF, idxF, now, args) ==
  LET ev == evaluateApply(loadKB(kbF), now, args)
  IN [kbFile |-> IF ev.found THEN saveKB(ev.kb) ELSE kbF,
      idxFile |-> idxF,
      res |-> ev.res]

\* the characters of the model in UTF-16 code unit order
CodeOrder == <<"\t", "\n", " ", "!", "+", "-">>
             \o <<"0","1","2","3","4","5","6","7","8","9">>
             \o UpperChars \o LowerChars

CharCode(c) == CHOOSE i \in DOMAIN CodeOrder : CodeOrder[i] = c

\* a < b as the default Array.prototype.sort compares strings
StrLess(a, b) ==
  \E k \in 1..(Len(b)) :
     /\ \A j \in 1..(k - 1) : j <= Len(a) /\ a[j] = b[j]
     /\ \/ k = Len(a) + 1
        \/ k <= Len(a) /\ CharCode(a[k]) < CharCode(b[k])

\* [x, y].sort().join(" + ")
PairKey(x, y) ==
  IF StrLess(y, x) THEN y \o <<" ","+"," ">> \o x ELSE x \o <<" ","+"," ">> \o y

\* obj[k] = (obj[k] || 0) + 1 for every k of keys, as [key, n] rows in the
\* order the keys were first set
CountKeys(keys) ==
  LET F[i \in 0..Len(keys)] ==
        IF i = 0 THEN <<>>
        ELSE LET acc == F[i - 1] IN
             IF \E r \in DOMAIN acc : acc[r].key = keys[i]
             THEN [r \in DOMAIN acc |->
                     IF acc[r].key = keys[i] THEN [acc[r] EXCEPT !.n = @ + 1]
                     ELSE acc[r]]
             ELSE Append(acc, [key |-> keys[i], n |-> 1])
  IN F[Len(keys)]

\* .sort((a, b) => b[1] - a[1]): stable, descending by count
SortByCount(rows) ==
  LET Insert(sorted, x) ==
        LET k == Cardinality({i \in DOMAIN sorted : sorted[i].n >= x.n})
        IN SubSeq(sorted, 1, k) \o <<x>> \o SubSeq(sorted, k + 1, Len(sorted))
      F[i \in 0..Len(rows)] == IF i = 0 THEN <<>> ELSE Insert(F[i - 1], rows[i])
  IN F[Len(rows)]

\* the pairs (i, j), i < j, of one tag list in loop order (lines 248-252)
TagPairsOf(tags) ==
  LET n == Len(tags)
      F[k \in 0..(n * n)] ==
        IF k = 0 THEN <<>>
        ELSE LET i == ((k - 1) \div n) + 1
                 j == ((k - 1) % n) + 1
             IN IF i < j THEN Append(F[k - 1], PairKey(tags[i], tags[j]))
                ELSE F[k - 1]
  IN F[n * n]

RECURSIVE Flatten(_)
Flatten(ss) == IF ss = <<>> THEN <<>> ELSE ss[1] \o Flatten(Tail(ss))

\* lines 255-266, for the entries es and their five most accessed
patternsAnswer(kbF, idxF, es, top) ==
  \* e.content.substring(0, 120) throws on an entry stored without content
  IF \E k \in DOMAIN top : es[top[k].key].content = Undefined
  THEN [kbFile |-> kbF, idxFile |-> idxF, res |-> Thrown]
  ELSE [kbFile |-> kbF, idxFile |-> idxF,
        res |-> [NoRes EXCEPT
                   !.total = Len(es),
                   !.categories =
                      SortByCount(CountKeys([i \in DOMAIN es |-> es[i].category])),
                   !.topTags =
                      Slice0(SortByCount(CountKeys(
                        Flatten([i \in DOMAIN es |-> es[i].tags]))), 10),
                   !.tagPairs =
                      Slice0(SortByCount(CountKeys(
                        Flatten([i \in DOMAIN es |-> TagPairsOf(es[i].tags)]))), 5),
                   !.mostAccessed = [k \in DOMAIN top |->
                                      [id |-> es[top[k].key].id,
                                       accessCount |-> top[k].n]]]]

\* [...kb.entries].sort((a, b) => b.accessCount - a.accessCount).slice(0, 5)
MostAccessed(es) ==
  Slice0(SortByCount([i \in DOMAIN es |-> [key |-> i, n |-> es[i].accessCount]]), 5)

patternsOf(kbF, idxF, es) ==
  IF Len(es) < 3
  THEN [kbFile |-> kbF, idxFile |-> idxF, res |-> [NoRes EXCEPT !.message = TRUE]]
  ELSE patternsAnswer(kbF, idxF, es, MostAccessed(es))

memoryPatterns(kbF, idxF, now, args) ==
  patternsOf(kbF, idxF, loadKB(kbF).entries)

\* --------------------------------------------------------------------------
\* State
\* --------------------------------------------------------------------------
VARIABLES
  kbFile,      \* KNOWLEDGE_FILE
  idxFile,     \* INDEX_FILE
  now,         \* Date.now()
  last,        \* the request just answered: tool, arguments, result
  served,      \* how many requests have been answered
  learnIds,    \* the ids memory_learn has returned, in order
  lastRecall,  \* a remembered memory_recall request, until a learn, an
               \* evaluate or a 24-hour crossing follows it
  inflight,    \* the handlers suspended at an await
  hits         \* per entry id, the number of result sets memoryRecall has
               \* returned that held the entry

vars == <<kbFile, idxFile, now, last, served, learnIds, lastRecall, inflight,
          hits>>

\* the names of the switch of lines 390-408
ToolNames ==
  {"memory_learn", "memory_recall", "memory_stats", "memory_patterns",
   "memory_suggest", "memory_evaluate"}

\* a handler without the catch of lines 413-415
HandlerNoCatch(op, res) ==
  IF op \notin ToolNames THEN "isError"
  ELSE IF res.err THEN "escaped"
  ELSE "result"

\* what the handler of lines 386-416 returns: the result of the tool, an
\* isError result for an unknown name (line 410) or for an exception caught
\* at line 413
HandlerReturn(op, res) ==
  IF op \notin ToolNames THEN "isError"
  ELSE IF res.err THEN "isError"
  ELSE "result"

\* a request with its answer
Answered(op, args, res) ==
  [op |-> op, args |-> args, res |-> res, reply |-> HandlerReturn(op, res)]

NoRequest == [op |-> "none", args |-> <<>>, res |-> NoRes, reply |-> "none"]
NoRecall ==
  [valid |-> FALSE, again |-> FALSE, ids |-> <<>>,
   args |-> [query |-> Undefined, limit |-> NoNum, category |-> Undefined,
             minScore |-> NoNum]]

Init ==
  /\ kbFile = NoFile
  /\ idxFile = NoFile
  /\ now = 0
  /\ last = NoRequest
  /\ served = 0
  /\ learnIds = <<>>
  /\ lastRecall = NoRecall
  /\ inflight = <<>>
  /\ hits = <<>>

Entries == loadKB(kbFile).entries

\* the counts after memoryRecall returned the result set ids
CountUp(h, ids) ==
  [id \in DOMAIN h \cup Range(ids) |->
     (IF id \in DOMAIN h THEN h[id] ELSE 0) + (IF id \in Range(ids) THEN 1 ELSE 0)]

\* the CallToolRequestSchema handler answers one request: out is what the
\* tool's function returned or threw, and the files it left
Answer(op, args, out) ==
  /\ served < MaxRequests
  /\ served' = served + 1
  /\ kbFile' = out.kbFile
  /\ idxFile' = out.idxFile
  /\ last' = Answered(op, args, out.res)
  /\ UNCHANGED <<now, inflight>>

LearnStep(args) ==
  \E out \in {memoryLearn(kbFile, idxFile, now, args)} :
     /\ Answer("memory_learn", args, out)
     /\ learnIds' = IF out.res.err THEN learnIds ELSE Append(learnIds, out.res.id)
     /\ UNCHANGED hits

StatsStep ==
  /\ \E out \in {memoryStats(kbFile, idxFile, now, <<>>)} :
       Answer("memory_stats", <<>>, out)
  /\ UNCHANGED <<learnIds, hits>>

PatternsStep ==
  /\ \E out \in {memoryPatterns(kbFile, idxFile, now, <<>>)} :
       Answer("memory_patterns", <<>>, out)
  /\ UNCHANGED <<learnIds, hits>>

SuggestStep(args) ==
  /\ \E out \in {memorySuggest(kbFile, idxFile, now, args)} :
       Answer("memory_suggest", args, out)
  /\ \E recall \in {memoryRecall(kbFile, idxFile, now, SuggestRecallArgs(args))} :
       hits' = CountUp(hits, recall.res.ids)
  /\ UNCHANGED learnIds

EvaluateStep(args) ==
  /\ \E out \in {memoryEvaluate(kbFile, idxFile, now, args)} :
       Answer("memory_evaluate", args, out)
  /\ UNCHANGED <<learnIds, hits>>

\* a day passes between two requests
TickStep ==
  /\ now < MaxTicks * TickMs
  /\ now' = now + TickMs
  /\ last' = NoRequest
  /\ UNCHANGED <<kbFile, idxFile, served, learnIds, inflight, hits>>

\* --------------------------------------------------------------------------
\* One server process, requests handled one at a time
\* --------------------------------------------------------------------------
Learn(args) == LearnStep(args) /\ UNCHANGED lastRecall

Recall(args) ==
  /\ \E out \in {memoryRecall(kbFile, idxFile, now, args)} :
       /\ Answer("memory_recall", args, out)
       /\ hits' = CountUp(hits, out.res.ids)
  /\ UNCHANGED <<learnIds, lastRecall>>

Stats == StatsStep /\ UNCHANGED lastRecall

Patterns == PatternsStep /\ UNCHANGED lastRecall

Suggest(args) == SuggestStep(args) /\ UNCHANGED lastRecall

Evaluate(args) == EvaluateStep(args) /\ UNCHANGED lastRecall

Tick == TickStep /\ UNCHANGED lastRecall

Next ==
  \/ \E args \in LearnArgs : Learn(args)
  \/ \E args \in RecallArgs : Recall(args)
  \/ Stats
  \/ Patterns
  \/ \E args \in SuggestArgs : Suggest(args)
  \/ \E args \in EvaluateArgs : Evaluate(args)
  \/ Tick

Spec == Init /\ [][Next]_vars

\* --------------------------------------------------------------------------
\* The same process, with one memory_recall request remembered: the first
\* one after a learn, an evaluate or an entry's age reaching 24 hours
\* --------------------------------------------------------------------------
Remember(args, ids) ==
  IF lastRecall.valid
  THEN [lastRecall EXCEPT !.again = @ \/ lastRecall.args = args]
  ELSE [valid |-> TRUE, again |-> FALSE, ids |-> ids, args |-> args]

\* the recency test of line 185 on one entry at time t
Recent(entry, t) == t - entry.timestamp < DayMs

RepeatLearn(args) == LearnStep(args) /\ lastRecall' = NoRecall

RepeatRecall(args) ==
  /\ \E out \in {memoryRecall(kbFile, idxFile, now, args)} :
       /\ Answer("memory_recall", args, out)
       /\ lastRecall' = Remember(args, out.res.ids)
       /\ hits' = CountUp(hits, out.res.ids)
  /\ UNCHANGED learnIds

RepeatStats == StatsStep /\ UNCHANGED lastRecall

RepeatPatterns == PatternsStep /\ UNCHANGED lastRecall

RepeatSuggest(args) == SuggestStep(args) /\ UNCHANGED lastRecall

RepeatEvaluate(args) == EvaluateStep(args) /\ lastRecall' = NoRecall

\* the votes on the first entry: they move it above or below the others
RepeatEvaluateArgs == {a \in EvaluateArgs : a.entryId = 1}

RepeatTick ==
  /\ TickStep
  /\ lastRecall' =
       IF \E i \in DOMAIN Entries :
            Recent(Entries[i], now) /\ ~Recent(Entries[i], now')
       THEN NoRecall
       ELSE lastRecall

NextRepeat ==
  \/ \E args \in LearnArgs : RepeatLearn(args)
  \/ \E args \in RecallArgs : RepeatRecall(args)
  \/ RepeatStats
  \/ RepeatPatterns
  \/ \E args \in SuggestArgs : RepeatSuggest(args)
  \/ \E args \in RepeatEvaluateArgs : RepeatEvaluate(args)
  \/ RepeatTick

SpecRepeat == Init /\ [][NextRepeat]_vars

\* --------------------------------------------------------------------------
\* One server process with memory_learn requests arriving while earlier ones
\* are suspended: the handler of lines 386-416 is an async function, each
\* await of memoryLearn (lines 137, 149, 151) returns to the event loop, and
\* no queue or lock of the source orders two handlers
\* --------------------------------------------------------------------------
\* a handler that has been called and waits for its readFile
Handler(args) == [args |-> args, pc |-> "load", kb |-> EmptyKB]

Without(s, h) == [k \in 1..(Len(s) - 1) |-> IF k < h THEN s[k] ELSE s[k + 1]]

\* a request is read from the transport and its handler starts
AsyncArrive(args) ==
  /\ served + Len(inflight) < MaxRequests
  /\ Len(inflight) < MaxInflight
  /\ inflight' = Append(inflight, Handler(args))
  /\ UNCHANGED <<kbFile, idxFile, now, last, served, learnIds, lastRecall, hits>>

\* lines 137-148: loadKB resolves; the entry is pushed on the loaded copy
AsyncLoad(h) ==
  /\ h \in DOMAIN inflight
  /\ inflight[h].pc = "load"
  /\ inflight' = [inflight EXCEPT
                    ![h].kb = learnPush(loadKB(kbFile), now, inflight[h].args),
                    ![h].pc = "saveKB"]
  /\ UNCHANGED <<kbFile, idxFile, now, last, served, learnIds, lastRecall, hits>>

\* line 149: saveKB writes the handler's copy
AsyncSaveKB(h) ==
  /\ h \in DOMAIN inflight
  /\ inflight[h].pc = "saveKB"
  /\ kbFile' = saveKB(inflight[h].kb)
  /\ inflight' = [inflight EXCEPT ![h].pc = "saveIndex"]
  /\ UNCHANGED <<idxFile, now, last, served, learnIds, lastRecall, hits>>

\* lines 150-156: the index of the handler's copy is written and the
\* request is answered
AsyncSaveIndex(h) ==
  /\ h \in DOMAIN inflight
  /\ inflight[h].pc = "saveIndex"
  /\ idxFile' = saveJson(buildIndex(inflight[h].kb.entries))
  /\ \E res \in {learnReturn(inflight[h].kb, inflight[h].args)} :
       /\ last' = Answered("memory_learn", inflight[h].args, res)
       /\ learnIds' = IF res.err THEN learnIds ELSE Append(learnIds, res.id)
  /\ served' = served + 1
  /\ inflight' = Without(inflight, h)
  /\ UNCHANGED <<kbFile, now, lastRecall, hits>>

NextAsync ==
  \/ \E args \in LearnArgs : AsyncArrive(args)
  \/ \E h \in 1..MaxInflight : AsyncLoad(h)
  \/ \E h \in 1..MaxInflight : AsyncSaveKB(h)
  \/ \E h \in 1..MaxInflight : AsyncSaveIndex(h)

SpecAsync == Init /\ [][NextAsync]_vars

\* --------------------------------------------------------------------------
\* The same process, also sent requests the tools do not expect: a name
\* outside the switch, and a tool called without its arguments object
\* --------------------------------------------------------------------------
UnknownNames == {"memory_forget"}

\* the tools that destructure their argument (lines 136, 159, 270, 289)
ToolsWithArguments ==
  {"memory_learn", "memory_recall", "memory_suggest", "memory_evaluate"}

\* line 410: the default branch of the switch
UnknownTool(name) ==
  /\ Answer(name, <<>>, [kbFile |-> kbFile, idxFile |-> idxFile, res |-> NoRes])
  /\ UNCHANGED <<learnIds, lastRecall, hits>>

\* destructuring undefined throws a TypeError before the tool's first line
WithoutArguments(name) ==
  /\ Answer(name, <<>>, [kbFile |-> kbFile, idxFile |-> idxFile, res |-> Thrown])
  /\ UNCHANGED <<learnIds, lastRecall, hits>>

NextDispatch ==
  \/ \E args \in LearnArgs : Learn(args)
  \/ \E args \in RecallArgs : Recall(args)
  \/ Stats
  \/ Patterns
  \/ \E args \in SuggestArgs : Suggest(args)
  \/ \E args \in EvaluateArgs : Evaluate(args)
  \/ \E name \in UnknownNames : UnknownTool(name)
  \/ \E name \in ToolsWithArguments : WithoutArguments(name)

SpecDispatch == Init /\ [][NextDispatch]_vars

\* --------------------------------------------------------------------------
\* The same process on storage that fails: between two requests the
\* knowledge file is removed or overwritten with text JSON.parse rejects
\* --------------------------------------------------------------------------
Damage(file) ==
  /\ kbFile # file
  /\ kbFile' = file
  /\ last' = NoRequest
  /\ UNCHANGED <<idxFile, now, served, learnIds, lastRecall, inflight, hits>>

NextUnreadable ==
  \/ \E args \in LearnArgs : Learn(args)
  \/ \E args \in RecallArgs : Recall(args)
  \/ Stats
  \/ Patterns
  \/ \E args \in SuggestArgs : Suggest(args)
  \/ \E args \in EvaluateArgs : Evaluate(args)
  \/ \E file \in {NoFile, BadFile} : Damage(file)

SpecUnreadable == Init /\ [][NextUnreadable]_vars

\* --------------------------------------------------------------------------
\* Two server processes on one DATA_DIR, each handling one request at a time
\* --------------------------------------------------------------------------
Instances == {1, 2}

Idle == [op |-> "none", args |-> <<>>, pc |-> "idle", loaded |-> EmptyKB,
         kb |-> EmptyKB, res |-> NoRes]

InitTwo ==
  /\ kbFile = NoFile
  /\ idxFile = NoFile
  /\ now = 0
  /\ last = NoRequest
  /\ served = 0
  /\ learnIds = <<>>
  /\ lastRecall = NoRecall
  /\ inflight = [p \in Instances |-> Idle]
  /\ hits = <<>>

Running == {p \in Instances : inflight[p].pc \notin {"idle", "done"}}

\* lines 137-148 in process p: loadKB resolves and the entry is pushed on
\* the loaded copy
TwoLoadLearn(p, args) ==
  /\ inflight[p].pc \in {"idle", "done"}
  /\ served + Cardinality(Running) < MaxRequests
  /\ \E loaded \in {loadKB(kbFile)} :
       inflight' = [inflight EXCEPT
                      ![p] = [op |-> "memory_learn", args |-> args,
                              pc |-> "saveKB", loaded |-> loaded,
                              kb |-> learnPush(loaded, now, args),
                              res |-> NoRes]]
  /\ UNCHANGED <<kbFile, idxFile, now, last, served, learnIds, lastRecall, hits>>

\* lines 290-298 in process p: loadKB resolves, the entry is looked up and
\* voted on in the loaded copy; an unknown id is answered at once
TwoLoadEvaluate(p, args) ==
  /\ inflight[p].pc \in {"idle", "done"}
  /\ served + Cardinality(Running) < MaxRequests
  /\ \E loaded \in {loadKB(kbFile)} :
     \E ev \in {evaluateApply(loaded, now, args)} :
       /\ inflight' = [inflight EXCEPT
                         ![p] = [op |-> "memory_evaluate", args |-> args,
                                 pc |-> IF ev.found THEN "saveKB" ELSE "done",
                                 loaded |-> loaded, kb |-> ev.kb,
                                 res |-> ev.res]]
       /\ served' = IF ev.found THEN served ELSE served + 1
       /\ last' = IF ev.found THEN last
                  ELSE Answered("memory_evaluate", args, ev.res)
  /\ UNCHANGED <<kbFile, idxFile, now, learnIds, lastRecall, hits>>

\* lines 149 and 298-299 in process p: saveKB writes the process's copy;
\* evaluate then returns
TwoSaveKB(p) ==
  /\ inflight[p].pc = "saveKB"
  /\ kbFile' = saveKB(inflight[p].kb)
  /\ IF inflight[p].op = "memory_learn"
     THEN /\ inflight' = [inflight EXCEPT ![p].pc = "saveIndex"]
          /\ UNCHANGED <<last, served>>
     ELSE /\ inflight' = [inflight EXCEPT ![p].pc = "done"]
          /\ last' = Answered("memory_evaluate", inflight[p].args, inflight[p].res)
          /\ served' = served + 1
  /\ UNCHANGED <<idxFile, now, learnIds, lastRecall, hits>>

\* lines 150-156 in process p: the index of the process's copy is written
\* and the learn is answered
TwoSaveIndex(p) ==
  /\ inflight[p].pc = "saveIndex"
  /\ idxFile' = saveJson(buildIndex(inflight[p].kb.entries))
  /\ \E res \in {learnReturn(inflight[p].kb, inflight[p].args)} :
       /\ inflight' = [inflight EXCEPT ![p].pc = "done", ![p].res = res]
       /\ last' = Answered("memory_learn", inflight[p].args, res)
       /\ learnIds' = IF res.err THEN learnIds ELSE Append(learnIds, res.id)
  /\ served' = served + 1
  /\ UNCHANGED <<kbFile, now, lastRecall, hits>>

NextTwo ==
  \/ \E p \in Instances : \E args \in LearnArgs : TwoLoadLearn(p, args)
  \/ \E p \in Instances : \E args \in EvaluateArgs : TwoLoadEvaluate(p, args)
  \/ \E p \in Instances : TwoSaveKB(p)
  \/ \E p \in Instances : TwoSaveIndex(p)

SpecTwo == InitTwo /\ [][NextTwo]_vars

\* --------------------------------------------------------------------------
\* One server process learning tagged knowledge
\* --------------------------------------------------------------------------
NextTagged ==
  \/ \E args \in TaggedLearnArgs : Learn(args)
  \/ \E args \in SuggestArgs : Suggest(args)
  \/ Patterns

SpecTagged == Init /\ [][NextTagged]_vars

\* --------------------------------------------------------------------------
\* Properties
\* --------------------------------------------------------------------------
RECURSIVE TotalAccess(_)
TotalAccess(entries) ==
  IF entries = <<>> THEN 0
  ELSE Head(entries).accessCount + TotalAccess(Tail(entries))

\* C1: with requests handled one at a time from an empty store, every entry
\* id is a positive integer, the ids of the collection strictly increase in
\* insertion order (so they are pairwise distinct), every id is smaller than
\* nextId, and no two learn calls have returned the same id.
C1_IdsIncreaseAndNeverRepeat ==
  /\ \A i \in DOMAIN Entries :
        Entries[i].id \in Nat \ {0} /\ Entries[i].id < loadKB(kbFile).nextId
  /\ \A i, j \in DOMAIN Entries :
        i < j => Entries[i].id < Entries[j].id
  /\ \A i, j \in DOMAIN learnIds : i # j => learnIds[i] # learnIds[j]

\* three entries are stored, one of them by a learn call that threw after
\* its saves
C1_Witness ==
  /\ Len(Entries) >= 3
  /\ Len(learnIds) >= 2
  /\ Len(learnIds) < Len(Entries)

\* C2: a recall adds exactly 1 to the persisted accessCount of every entry it
\* returns and nothing to the others, so the sum of the counts grows by the
\* number of returned entries; a stats call reports totalAccesses equal to
\* the sum of accessCount over all entries.
C2_RecallCountsEveryResultOnce ==
  [][/\ last'.op = "memory_recall" =>
          /\ \A i \in DOMAIN Entries :
                Entries'[i].accessCount =
                   Entries[i].accessCount
                     + (IF \E k \in DOMAIN last'.res.ids :
                              last'.res.ids[k] = Entries[i].id
                        THEN 1 ELSE 0)
          /\ TotalAccess(Entries') = TotalAccess(Entries) + Len(last'.res.ids)
     /\ last'.op = "memory_stats" =>
          last'.res.totalAccesses = TotalAccess(Entries')]_vars

\* a stats call reports the accesses two recalls (or one recall of two
\* entries) have counted
C2_Witness ==
  /\ last.op = "memory_stats"
  /\ last.res.totalAccesses >= 2
  /\ \E i \in DOMAIN Entries : Entries[i].accessCount >= 1

\* C3: evaluate on an existing id adds exactly 1 (useful) or -1 (not useful)
\* to that entry's persisted usefulness, whatever its value, leaves the
\* usefulness of every other entry unchanged, and returns success with the
\* new value.
C3_EvaluateVotesByOne ==
  [][\A i \in DOMAIN Entries :
        (last'.op = "memory_evaluate" /\ Entries[i].id = last'.args.entryId) =>
          /\ Entries'[i].usefulness =
                Entries[i].usefulness + (IF last'.args.useful THEN 1 ELSE -1)
          /\ \A j \in DOMAIN Entries \ {i} :
                Entries'[j].usefulness = Entries[j].usefulness
          /\ ~last'.res.err
          /\ last'.res.success
          /\ last'.res.usefulness = Entries'[i].usefulness]_vars

\* the second of two entries was voted down below zero
C3_Witness ==
  /\ last.op = "memory_evaluate"
  /\ last.res.success
  /\ Len(Entries) >= 2
  /\ last.args.entryId = 2
  /\ last.res.usefulness <= -2
  /\ Entries[1].usefulness = 0

\* C4: evaluate with an id no entry has returns success = false and leaves
\* the persisted collection and the persisted index exactly as they were,
\* with or without a feedback text.
C4_EvaluateUnknownIdChangesNothing ==
  [][(/\ last'.op = "memory_evaluate"
      /\ \A i \in DOMAIN Entries : Entries[i].id # last'.args.entryId) =>
        /\ ~last'.res.success
        /\ ~last'.res.err
        /\ kbFile' = kbFile
        /\ idxFile' = idxFile]_vars

\* an unknown id was evaluated with a feedback text on a store of two entries
C4_Witness ==
  /\ last.op = "memory_evaluate"
  /\ ~last.res.success
  /\ last.args.feedback = Str_ok
  /\ Len(Entries) >= 2
  /\ \A i \in DOMAIN Entries : Entries[i].id # last.args.entryId
\* a limit or a threshold as the caller gave it, the default only when the
\* caller gave none
Given(x, d) == IF x.has THEN x.val ELSE d

\* C5: a recall on a non-empty collection with the caller's limit L and
\* minimum score M, 0 included, returns exactly the entries of the category
\* filter whose adjusted score is at least M, by descending adjusted score,
\* cut to the first L.
C5_RecallHonoursLimitAndMinScore ==
  [][(last'.op = "memory_recall" /\ Entries # <<>>) =>
        \E ranked \in
             {RankEntries(Entries, loadJson(idxFile, buildIndex(Entries)), now,
                          last'.args.query, Given(last'.args.limit, 10),
                          last'.args.category,
                          Given(last'.args.minScore, 100))} :
           last'.res.ids = [k \in DOMAIN ranked |-> ranked[k].entry.id]]_vars

\* C6: a learn of one entry into an empty store, immediately followed by a
\* recall with the default limit and minimum score whose query shares no
\* token with the entry's text, returns no result and leaves the entry's
\* accessCount at 0.
C6_UnrelatedRecallFindsNothing ==
  [][(/\ last.op = "memory_learn"
      /\ Len(Entries) = 1
      /\ last'.op = "memory_recall"
      /\ ~last'.args.limit.has
      /\ ~last'.args.minScore.has
      /\ last'.args.category = Undefined
      /\ Range(tokenize(last'.args.query))
           \cap Range(tokenize(EntryText(Entries[1]))) = {}) =>
        /\ last'.res.ids = <<>>
        /\ Entries'[1].accessCount = 0]_vars

\* C9: no request removes an entry or changes an entry's id, content,
\* category, tags, source or timestamp; recall and suggest change nothing
\* but accessCount, evaluate changes nothing but the usefulness and feedback
\* of the entry it addresses, and stats and patterns leave the persisted
\* collection and index as they were.
C9_RequestsChangeOnlyTheirFields ==
  [][/\ Len(Entries') >= Len(Entries)
     /\ \A i \in DOMAIN Entries :
           /\ Entries'[i].id = Entries[i].id
           /\ Entries'[i].content = Entries[i].content
           /\ Entries'[i].category = Entries[i].category
           /\ Entries'[i].tags = Entries[i].tags
           /\ Entries'[i].source = Entries[i].source
           /\ Entries'[i].timestamp = Entries[i].timestamp
     /\ last'.op \in {"memory_recall", "memory_suggest"} =>
           /\ idxFile' = idxFile
           /\ loadKB(kbFile').nextId = loadKB(kbFile).nextId
           /\ Len(Entries') = Len(Entries)
           /\ \A i \in DOMAIN Entries :
                 Entries'[i] =
                    [Entries[i] EXCEPT !.accessCount = Entries'[i].accessCount]
     /\ last'.op = "memory_evaluate" =>
           /\ idxFile' = idxFile
           /\ loadKB(kbFile').nextId = loadKB(kbFile).nextId
           /\ Len(Entries') = Len(Entries)
           /\ \A i \in DOMAIN Entries :
                 IF Entries[i].id = last'.args.entryId
                 THEN Entries'[i] =
                        [Entries[i] EXCEPT
                           !.usefulness = Entries'[i].usefulness,
                           !.feedback = Entries'[i].feedback]
                 ELSE Entries'[i] = Entries[i]
     /\ last'.op \in {"memory_stats", "memory_patterns"} =>
           kbFile' = kbFile /\ idxFile' = idxFile]_vars

\* a learn, a recall that counted an access and an evaluate that stored a
\* feedback text have all acted on the first entry, and patterns answered
C9_Witness ==
  /\ Len(Entries) >= 1
  /\ Entries[1].accessCount >= 1
  /\ Entries[1].usefulness # 0
  /\ Entries[1].feedback # <<>>
  /\ last.op \in {"memory_stats", "memory_patterns"}

\* C10: every stored entry has a content that is a non-empty text string,
\* whatever the arguments of the learn calls were.
C10_ContentIsNonEmptyText ==
  \A i \in DOMAIN Entries :
     Entries[i].content # Undefined /\ Entries[i].content # <<>>
\* C7: a recall with the arguments of the remembered recall, with no learn
\* or evaluate and no entry's age reaching 24 hours since, returns the same
\* entry ids in the same order, although the recalls in between changed
\* accessCount.
C7_RepeatedRecallSameIds ==
  [][(/\ last'.op = "memory_recall"
      /\ lastRecall.valid
      /\ lastRecall.args = last'.args) =>
        last'.res.ids = lastRecall.ids]_vars

\* the remembered recall was repeated and returned two entries again, after
\* the accesses of the first had been counted
C7_Witness ==
  /\ last.op = "memory_recall"
  /\ lastRecall.valid
  /\ lastRecall.again
  /\ lastRecall.args = last.args
  /\ Len(last.res.ids) >= 2
  /\ \A i \in DOMAIN Entries : Entries[i].accessCount >= 2
\* C8: requests of one process do not interleave: once every handler has
\* answered, each of the learn requests answered so far (every request of
\* SpecAsync is one) has its own entry in the persisted collection, and the
\* ids returned are pairwise distinct.
C8_LearnsDoNotInterleave ==
  inflight = <<>> =>
     /\ Len(Entries) = served
     /\ \A i, j \in DOMAIN learnIds : i # j => learnIds[i] # learnIds[j]
\* C11: every request ends in a returned value: an operation that threw and
\* an unknown tool name are answered with an isError result, every other
\* request with the tool's result, no exception leaves the handler, and
\* while the run lasts the next request can be answered.
C11_EveryRequestIsAnswered ==
  /\ last.op # "none" =>
       /\ last.reply \in {"result", "isError"}
       /\ last.res.err => last.reply = "isError"
       /\ last.op \notin ToolNames => last.reply = "isError"
       /\ (last.op \in ToolNames /\ ~last.res.err) => last.reply = "result"
  /\ served < MaxRequests => ENABLED StatsStep

\* an operation that threw on a stored entry was answered with isError, and
\* requests before it had been answered
C11_Witness ==
  /\ last.op \in {"memory_suggest", "memory_patterns"}
  /\ last.res.err
  /\ last.reply = "isError"
  /\ served >= 3
Twins(e, f) ==
  /\ e.content = f.content
  /\ e.tags = f.tags
  /\ e.category = f.category
  /\ e.usefulness = f.usefulness

TagsOfId(entries, id) ==
  Range(entries[CHOOSE j \in DOMAIN entries : entries[j].id = id].tags)

\* C14: every suggestion has exactly one type, given by the first rule its
\* entry's tags match: error or failure -> warning, else success or solution
\* -> recommendation, else pattern or best-practice -> best_practice, else
\* related; error with solution is a warning, no tags is related.
C14_SuggestionTypeIsFirstMatch ==
  [][(last'.op = "memory_suggest" /\ ~last'.res.err) =>
       /\ DOMAIN last'.res.types = DOMAIN last'.res.ids
       /\ \A k \in DOMAIN last'.res.ids :
            \E tags \in {TagsOfId(Entries', last'.res.ids[k])} :
            \E type \in {last'.res.types[k]} :
              /\ type \in {"warning", "recommendation", "best_practice", "related"}
              /\ type = "warning" <=> tags \cap {Str_error, Str_failure} # {}
              /\ type = "recommendation" <=>
                   /\ tags \cap {Str_error, Str_failure} = {}
                   /\ tags \cap {Str_success, Str_solution} # {}
              /\ type = "best_practice" <=>
                   /\ tags \cap {Str_error, Str_failure, Str_success, Str_solution} = {}
                   /\ tags \cap {Str_pattern, Str_best_practice} # {}
              /\ {Str_error, Str_solution} \subseteq tags => type = "warning"
              /\ tags = {} => type = "related"]_vars

\* one suggest typed an entry tagged error and solution, an entry tagged
\* solution and pattern, and an entry without tags
C14_Witness ==
  /\ last.op = "memory_suggest"
  /\ ~last.res.err
  /\ \E a, b, c \in DOMAIN last.res.ids :
       /\ TagsOfId(Entries, last.res.ids[a]) = {Str_error, Str_solution}
       /\ last.res.types[a] = "warning"
       /\ TagsOfId(Entries, last.res.ids[b]) = {Str_solution, Str_pattern}
       /\ last.res.types[b] = "recommendation"
       /\ TagsOfId(Entries, last.res.ids[c]) = {}
       /\ last.res.types[c] = "related"
\* the entries that carry both tags
Carrying(x, y) ==
  {i \in DOMAIN Entries : {x, y} \subseteq Range(Entries[i].tags)}

\* the pairs of two distinct tags, in lexicographic order, found together
\* on some entry
DistinctPairs ==
  {p \in UNION {Range(Entries[i].tags) \X Range(Entries[i].tags) :
                  i \in DOMAIN Entries} : StrLess(p[1], p[2])}

\* C15: for at least 3 entries the tag-pair counts of patterns hold one key
\* "x + y" per unordered pair of distinct tags found together on an entry,
\* counted once per entry carrying both; no key pairs a tag with itself and
\* an entry adds at most 1 to a pair, also when its tag list repeats a tag.
C15_TagPairsCountEntries ==
  (/\ last.op = "memory_patterns"
   /\ ~last.res.err
   /\ Len(Entries) >= 3) =>
     /\ \A k \in DOMAIN last.res.tagPairs :
          \E p \in DistinctPairs :
             /\ last.res.tagPairs[k].key = p[1] \o <<" ", "+", " ">> \o p[2]
             /\ last.res.tagPairs[k].n = Cardinality(Carrying(p[1], p[2]))
     /\ Cardinality(DistinctPairs) <= 5 =>
          \A p \in DistinctPairs :
             \E k \in DOMAIN last.res.tagPairs :
                last.res.tagPairs[k].key = p[1] \o <<" ", "+", " ">> \o p[2]
\* C16: with fewer than 3 entries patterns returns only the informational
\* message, no category, tag, tag-pair or most-accessed list, no error, and
\* changes no file; with 3 or more entries it returns the histograms.
C16_PatternsNeedsThreeEntries ==
  [][last'.op = "memory_patterns" =>
       /\ kbFile' = kbFile
       /\ idxFile' = idxFile
       /\ Len(Entries) < 3 =>
            /\ ~last'.res.err
            /\ last'.reply = "result"
            /\ last'.res.message
            /\ last'.res.categories = <<>>
            /\ last'.res.topTags = <<>>
            /\ last'.res.tagPairs = <<>>
            /\ last'.res.mostAccessed = <<>>
       /\ Len(Entries) >= 3 =>
            /\ ~last'.res.err
            /\ ~last'.res.message
            /\ last'.res.total = Len(Entries)
            /\ last'.res.categories # <<>>
            /\ last'.res.mostAccessed # <<>>]_vars
\* the tokens found in the content, in a tag or in the category of an entry,
\* the content read as the template literal of the searchable text reads it
PartTexts ==
  UNION {{Interp(a.content), OrStr(a.category, General)}
           \cup (IF a.tags.has THEN Range(a.tags.val) ELSE {}) :
         a \in LearnArgs \cup TaggedLearnArgs}

PartTable == [text \in PartTexts |-> Range(tokenize(text))]

PartTokens(entry) ==
  PartTable[Interp(entry.content)]
    \cup UNION {PartTable[entry.tags[i]] : i \in DOMAIN entry.tags}
    \cup PartTable[entry.category]

\* idx is the index of the collection entries
IndexMatches(idx, entries) ==
  /\ idx.docCount = Len(entries)
  /\ DOMAIN idx.terms = UNION {PartTokens(entries[i]) : i \in DOMAIN entries}
  /\ DOMAIN idx.idf = DOMAIN idx.terms
  /\ \A t \in DOMAIN idx.terms :
       /\ Range(idx.terms[t]) =
            {entries[i].id : i \in {j \in DOMAIN entries : t \in PartTokens(entries[j])}}
       /\ \A a, b \in DOMAIN idx.terms[t] :
            a # b => idx.terms[t][a] # idx.terms[t][b]
       /\ idx.idf[t] = Idf(Len(entries), Len(idx.terms[t]))

\* C17: one process, one request at a time, from an empty store: after every
\* completed operation, once a learn has succeeded, the persisted index is
\* the index of the whole persisted collection (docCount = number of entries,
\* terms[t] = the ids of the entries holding t, each once); only learn writes
\* the index and recall leaves it as it is.
C17_IndexFollowsCollection ==
  [][/\ learnIds' # <<>> =>
          /\ idxFile'.state = "ok"
          /\ IndexMatches(idxFile'.json, Entries')
     /\ idxFile' # idxFile => last'.op = "memory_learn"
     /\ last'.op = "memory_recall" => idxFile' = idxFile]_vars

\* a recall that returned an entry and raised its accessCount left an index
\* of three entries, with a token of two of them and a token of one
C17_Witness ==
  /\ last.op = "memory_recall"
  /\ last.res.ids # <<>>
  /\ learnIds # <<>>
  /\ idxFile.state = "ok"
  /\ idxFile.json.docCount = 3
  /\ \E t, u \in DOMAIN idxFile.json.terms :
       /\ Len(idxFile.json.terms[t]) = 2
       /\ Len(idxFile.json.terms[u]) = 1
\* process p has answered a request that loaded, changed and saved the
\* collection, and reported success
SavedWithSuccess(p) ==
  /\ inflight[p].pc = "done"
  /\ \/ inflight[p].op = "memory_learn" /\ ~inflight[p].res.err
     \/ inflight[p].op = "memory_evaluate" /\ inflight[p].res.success

\* C18: two processes on one storage location: when two operations that
\* both reported success had loaded the same collection, the persisted
\* collection is the copy of the one that saved last and lacks the effect
\* of the other; two such learns were given the same id and left one entry.
C18_LaterSaveOverwrites ==
  \A p, q \in Instances :
     (/\ p # q
      /\ SavedWithSuccess(p)
      /\ SavedWithSuccess(q)
      /\ inflight[p].loaded = inflight[q].loaded) =>
        /\ kbFile.state = "ok"
        /\ kbFile.json \in {inflight[p].kb, inflight[q].kb}
        /\ (inflight[p].op = "memory_learn" /\ inflight[q].op = "memory_learn") =>
             /\ inflight[p].res.id = inflight[q].res.id
             /\ Len(Entries) = Len(inflight[p].loaded.entries) + 1
             /\ kbFile.json.nextId = inflight[p].loaded.nextId + 1
        /\ (inflight[p].op = "memory_learn" /\ inflight[q].op = "memory_evaluate") =>
             \/ Len(Entries) = Len(inflight[p].loaded.entries)
             \/ /\ Len(Entries) = Len(inflight[p].loaded.entries) + 1
                /\ \A i \in DOMAIN inflight[p].loaded.entries :
                     Entries[i] = inflight[p].loaded.entries[i]

\* two learns of different processes both returned id 2 and one entry was
\* added to the collection of one entry both had loaded
C18_Witness ==
  /\ SavedWithSuccess(1)
  /\ SavedWithSuccess(2)
  /\ inflight[1].op = "memory_learn"
  /\ inflight[2].op = "memory_learn"
  /\ inflight[1].loaded = inflight[2].loaded
  /\ Len(inflight[1].loaded.entries) = 1
  /\ inflight[1].res.id = 2
  /\ inflight[2].res.id = 2
  /\ learnIds = <<1, 2, 2>>
  /\ Len(Entries) = 2
\* C19: a learn answered with an error result leaves the persisted
\* collection and the persisted index as they were before the request: no
\* entry added, nextId not advanced.
C19_FailedLearnWritesNothing ==
  [][(last'.op = "memory_learn" /\ last'.reply = "isError") =>
       /\ kbFile' = kbFile
       /\ idxFile' = idxFile
       /\ Len(Entries') = Len(Entries)
       /\ loadKB(kbFile').nextId = loadKB(kbFile).nextId]_vars
\* the number of result sets returned so far that held the entry with this id
ReturnedSoFar(h, id) == IF id \in DOMAIN h THEN h[id] ELSE 0

\* C20: one process, one request at a time, from an empty store: in every
\* state each entry's accessCount is a natural number equal to the number of
\* result sets returned so far, by recall and by the recall inside suggest,
\* that held the entry; a recall or suggest that returns no entry changes no
\* accessCount, and learn, evaluate, stats and patterns never change one.
C20_AccessCountIsReturnCount ==
  [][/\ \A i \in DOMAIN Entries' :
          /\ Entries'[i].accessCount \in Nat
          /\ Entries'[i].accessCount = ReturnedSoFar(hits', Entries'[i].id)
     /\ \A id \in DOMAIN hits' : \E i \in DOMAIN Entries' : Entries'[i].id = id
     /\ (\/ last'.op \in {"memory_learn", "memory_evaluate", "memory_stats",
                          "memory_patterns"}
         \/ last'.op \in {"memory_recall", "memory_suggest"} /\ hits' = hits) =>
          \A i \in DOMAIN Entries :
             Entries'[i].accessCount = Entries[i].accessCount]_vars

\* a suggest that threw on an entry stored without content has counted its
\* result set: one entry was returned twice, another once
C20_Witness ==
  /\ last.op = "memory_suggest"
  /\ last.res.err
  /\ Len(Entries) = 2
  /\ \E i, j \in DOMAIN Entries :
       /\ Entries[i].accessCount = 2
       /\ ReturnedSoFar(hits, Entries[i].id) = 2
       /\ Entries[j].accessCount = 1
       /\ ReturnedSoFar(hits, Entries[j].id) = 1
\* C21: one process, one request at a time, readable storage, from an empty
\* store: after N successful learn calls and any number of other calls the
\* collection holds exactly N entries with ids 1, ..., N in that order,
\* nextId is N + 1, and the N-th learn returned id N and total N.
C21_EntriesAreTheSuccessfulLearns ==
  /\ Len(Entries) = Len(learnIds)
  /\ \A i \in DOMAIN Entries : Entries[i].id = i
  /\ loadKB(kbFile).nextId = Len(learnIds) + 1
  /\ \A n \in DOMAIN learnIds : learnIds[n] = n
  /\ (last.op = "memory_learn" /\ ~last.res.err) =>
       /\ last.res.id = Len(learnIds)
       /\ last.res.total = Len(learnIds)
====
